---------------------------- MODULE Spec2Model ----------------------------
(***************************************************************************)
(* Model of src/dataset_utils.py: the CAPE_utils accessor (frame loading,  *)
(* clothing displacement, mesh extraction, sequence visualisation, overlap *)
(* inspection) acting on a small dataset directory tree.                   *)
(***************************************************************************)
EXTENDS Integers, Sequences, FiniteSets, TLC

VARIABLES
    faces, dataset_dir, mesh_lib,   \* fields of the CAPE_utils instance
    op, exc, log,                   \* last call: its name, the exception it raised, its trace
    v_cano_in, minimal_in, disp,    \* calc_clo_disp: the caller's two arrays and the result
    npz_in, frame,                  \* load_single_frame: the file at npz_fn and the result
    seq_dir, scan_dir,              \* <dataset>/sequences/subj/seq and <dataset>/raw_scans/subj/seq
    mesh_dirs, scans_out, video,    \* <dataset>/meshes/subj/seq/<option>, <dataset>/scans/subj/seq, the mp4
    pc, idx, viewer                 \* vis_overlap: position, frames left to inspect, the MeshViewer

vars == << faces, dataset_dir, mesh_lib, op, exc, log, v_cano_in, minimal_in, disp,
           npz_in, frame, seq_dir, scan_dir, mesh_dirs, scans_out, video, pc, idx, viewer >>

inst_vars == << faces, dataset_dir, mesh_lib >>
disp_vars == << v_cano_in, minimal_in, disp >>
load_vars == << npz_in, frame >>
fs_vars   == << seq_dir, scan_dir, mesh_dirs, scans_out, video >>
loop_vars == << pc, idx, viewer >>

---------------------------------------------------------------------------
(* Bounds *)

MaxVerts == 2      \* vertex counts 1..MaxVerts
PrecBits == 3      \* significand width of the modelled binary floating point
MaxScans == 3      \* raw scans in the scan directory

---------------------------------------------------------------------------
(* Floating point: numpy subtracts and adds float arrays element by       *)
(* element, each result rounded to the nearest representable value, ties  *)
(* to even.  Values here are integers with a PrecBits-bit significand.    *)

RECURSIVE Pow2(_)
Pow2(e) == IF e = 0 THEN 1 ELSE 2 * Pow2(e - 1)

RECURSIVE BitLen(_)
BitLen(n) == IF n = 0 THEN 0 ELSE 1 + BitLen(n \div 2)

RoundMag(n) ==
    IF BitLen(n) <= PrecBits THEN n
    ELSE LET e    == BitLen(n) - PrecBits
             q    == n \div Pow2(e)
             r    == n % Pow2(e)
             half == Pow2(e - 1)
             up   == r > half \/ (r = half /\ q % 2 = 1)
         IN  (IF up THEN q + 1 ELSE q) * Pow2(e)

Round(x) == IF x < 0 THEN -RoundMag(-x) ELSE RoundMag(x)

\* variant: the operands subtracted in the reverse order
FSubSwapped(x, y) == Round(y - x)

\* x - y on two floats
FSub(x, y) == Round(x - y)

Big == Pow2(PrecBits + 1)

---------------------------------------------------------------------------
(* Vertex arrays: a sequence of N rows, each an (x, y, z) tuple.           *)

Rows == { <<0, 0, 0>>, <<1, 0, 0>>, <<0, 1, 0>>, <<Big, 0, 1>> }

ArraysOf(n) == [1..n -> Rows]

Arrays == UNION { ArraysOf(n) : n \in 1..MaxVerts }

\* numpy broadcasting of the leading dimension: equal, or one of them is 1
Broadcastable(n1, n2) == n1 = n2 \/ n1 = 1 \/ n2 = 1

BroadcastLen(n1, n2) == IF n1 = 1 THEN n2 ELSE n1

BRow(a, i) == IF Len(a) = 1 THEN a[1] ELSE a[i]

ArrSub(a, b) ==
    [i \in 1..BroadcastLen(Len(a), Len(b)) |->
        [j \in DOMAIN BRow(a, i) |-> FSub(BRow(a, i)[j], BRow(b, i)[j])]]

NoDisp == [done |-> FALSE, val |-> <<>>]

\* calc_clo_disp as a function of its arguments: the exception and the value
calc_clo_disp(v_cano, minimal_cano) ==
    IF Broadcastable(Len(v_cano), Len(minimal_cano))
    THEN [exc |-> "none", val |-> ArrSub(v_cano, minimal_cano)]
    ELSE [exc |-> "ValueError", val |-> <<>>]

---------------------------------------------------------------------------
(* File names are sequences of one-character strings, so that glob's      *)
(* pattern match, str.replace and str.format act on characters.           *)

\* characters in code-point order, as sorted() compares them
Alphabet == << ".", "0", "1", "2", "3", "4", "5", "6", "7", "8", "9",
               "a", "b", "d", "f", "g", "j", "l", "n", "o", "p", "s", "t", "x", "y", "z" >>

Ord(c) == CHOOSE i \in DOMAIN Alphabet : Alphabet[i] = c

RECURSIVE LexLess(_, _)
LexLess(s, t) ==
    IF t = <<>> THEN FALSE
    ELSE IF s = <<>> THEN TRUE
    ELSE IF Head(s) = Head(t) THEN LexLess(Tail(s), Tail(t))
    ELSE Ord(Head(s)) < Ord(Head(t))

Perms(S) == { f \in [1..Cardinality(S) -> S] : \A x \in S : \E i \in DOMAIN f : f[i] = x }

\* sorted(list): the ascending arrangement of a set of distinct names
Sorted(S) == CHOOSE f \in Perms(S) : \A i, j \in DOMAIN f : i < j => LexLess(f[i], f[j])

EndsWith(s, suf) ==
    Len(s) >= Len(suf) /\ SubSeq(s, Len(s) - Len(suf) + 1, Len(s)) = suf

\* str.replace(old, new): every non-overlapping occurrence, left to right
RECURSIVE Replace(_, _, _)
Replace(s, old, new) ==
    IF Len(s) < Len(old) THEN s
    ELSE IF SubSeq(s, 1, Len(old)) = old
         THEN new \o Replace(SubSeq(s, Len(old) + 1, Len(s)), old, new)
         ELSE <<Head(s)>> \o Replace(Tail(s), old, new)

Digit(d) == Alphabet[d + 2]

RECURSIVE Digits(_)
Digits(n) == IF n < 10 THEN <<Digit(n)>> ELSE Digits(n \div 10) \o <<Digit(n % 10)>>

\* '{:0>2d}'.format(i): right-aligned in width 2, filled with '0'
Pad2(i) == IF Len(Digits(i)) < 2 THEN <<"0">> \o Digits(i) ELSE Digits(i)

NPZ == << "n", "p", "z" >>
OBJ == << "o", "b", "j" >>
PLY == << "p", "l", "y" >>
PNG == << "p", "n", "g" >>
Dot == << "." >>

\* glob(join(dir, '*.<ext>')): the entries of an existing directory that end
\* in .<ext> and do not start with a dot; nothing for a missing directory
Glob(dir, ext) ==
    IF ~dir.exists THEN {}
    ELSE { n \in DOMAIN dir.files : EndsWith(n, Dot \o ext) /\ Head(n) # "." }

---------------------------------------------------------------------------
(* Files.  An archive's data maps the entry names it holds to arrays; an   *)
(* array read from the dataset is named by its entry and the file it came  *)
(* from.                                                                   *)

KeyOrder == << "v_cano", "v_posed", "pose", "transl" >>

Keys == { KeyOrder[i] : i \in DOMAIN KeyOrder }

Entry(k, src) == [key |-> k, of |-> src]

\* the file at a path: absent, an .npz archive, or a file that is no archive
NoFile == [exists |-> FALSE, npz |-> FALSE, data |-> <<>>]

Archive(d) == [exists |-> TRUE, npz |-> TRUE, data |-> d]

OtherFile == [exists |-> TRUE, npz |-> FALSE, data |-> <<>>]

\* the archive stored under name nm holding the entries ks
ArchiveOf(nm, ks) == Archive([k \in ks |-> Entry(k, nm)])

NoFrame == <<>>

\* variant: an absent entry read with a default instead of data[k]
load_single_frame_lenient(f) ==
    IF ~f.exists THEN [exc |-> "FileNotFoundError", val |-> NoFrame]
    ELSE IF ~f.npz THEN [exc |-> "ValueError", val |-> NoFrame]
    ELSE [exc |-> "none",
          val |-> [i \in DOMAIN KeyOrder |->
                      IF KeyOrder[i] \in DOMAIN f.data THEN f.data[KeyOrder[i]]
                      ELSE Entry("none", <<>>)]]

\* load_single_frame(npz_fn): np.load raises for a missing path and for a
\* file that is no archive; data[k] raises KeyError for an absent entry
load_single_frame(f) ==
    IF ~f.exists THEN [exc |-> "FileNotFoundError", val |-> NoFrame]
    ELSE IF ~f.npz THEN [exc |-> "ValueError", val |-> NoFrame]
    ELSE IF \E i \in DOMAIN KeyOrder : KeyOrder[i] \notin DOMAIN f.data
         THEN [exc |-> "KeyError", val |-> NoFrame]
         ELSE [exc |-> "none", val |-> [i \in DOMAIN KeyOrder |-> f.data[KeyOrder[i]]]]

---------------------------------------------------------------------------
(* Directories: whether the directory exists and its entries by name.      *)

NoDir == [exists |-> FALSE, files |-> <<>>]

EmptyDir == [exists |-> TRUE, files |-> <<>>]

Dir(fs) == [exists |-> TRUE, files |-> fs]

\* os.makedirs(d, exist_ok=True)
MakeDirs(d) == IF d.exists THEN d ELSE EmptyDir

\* the entries of d with the file c written at name n (created or replaced)
Put(fs, n, c) == [m \in (DOMAIN fs) \cup {n} |-> IF m = n THEN c ELSE fs[m]]

FileAt(d, n) == IF d.exists /\ n \in DOMAIN d.files THEN d.files[n] ELSE NoFile

Options == { "posed", "canonical" }

MeshLibs == { "trimesh", "psbody.mesh", "other" }

Ev(e, a) == [ev |-> e, arg |-> a]

\* a mesh file: the vertices and the face table it was written with
MeshFile(verts, fcs) == [verts |-> verts, faces |-> fcs]

---------------------------------------------------------------------------
(* extract_mesh_seq                                                        *)

\* basename(fn).replace('npz', 'obj')
MeshFrameName(nm) == Replace(nm, NPZ, OBJ)

\* verts = v_posed if option == 'posed' else v_cano
Verts(fr, option) == IF option = "posed" THEN fr[2] ELSE fr[1]

\* the export of one frame by the selected backend; no branch for another value
WriteMesh(fs, nm, verts) ==
    IF mesh_lib \in { "trimesh", "psbody.mesh" }
    THEN Put(fs, nm, MeshFile(verts, faces))
    ELSE fs

\* the for-loop over seq_flist: acc is the mesh directory's entries, the trace
\* and the exception so far; a frame that fails to load ends the loop
RECURSIVE ExtractLoop(_, _, _)
ExtractLoop(flist, option, acc) ==
    IF flist = <<>> THEN acc
    ELSE LET fn == Head(flist)
             r  == load_single_frame(FileAt(seq_dir, fn))
         IN  IF r.exc # "none"
             THEN [acc EXCEPT !.exc = r.exc, !.log = @ \o << Ev("raise", fn) >>]
             ELSE ExtractLoop(Tail(flist), option,
                     [acc EXCEPT
                        !.files = WriteMesh(@, MeshFrameName(fn), Verts(r.val, option)),
                        !.log = @ \o (IF mesh_lib \in { "trimesh", "psbody.mesh" }
                                      THEN << Ev("write", MeshFrameName(fn)) >>
                                      ELSE <<>>)])

\* variant: the call without os.makedirs(mesh_dir, exist_ok=True)
extract_mesh_seq_no_makedirs(option, flist) ==
    [exists |-> mesh_dirs[option].exists] @@
    ExtractLoop(flist, option,
        [files |-> mesh_dirs[option].files,
         log   |-> << Ev("extract_begin", <<>>) >>,
         exc   |-> "none"])

\* the whole call, for the order flist in which glob lists the archives
extract_mesh_seq(option, flist) ==
    [exists |-> TRUE] @@
    ExtractLoop(flist, option,
        [files |-> MakeDirs(mesh_dirs[option]).files,
         log   |-> << Ev("extract_begin", <<>>) >>,
         exc   |-> "none"])

Call(name, option) == [name |-> name, option |-> option]

ExtractMeshSeq ==
    /\ pc = "idle"
    /\ \E option \in Options, flist \in Perms(Glob(seq_dir, NPZ)) :
          LET r == extract_mesh_seq(option, flist)
          IN  /\ mesh_dirs' = [mesh_dirs EXCEPT ![option] = [exists |-> r.exists, files |-> r.files]]
              /\ log' = (IF r.exc = "none" THEN r.log \o << Ev("extract_end", <<>>) >> ELSE r.log)
              /\ exc' = r.exc
              /\ op' = Call("extract_mesh_seq", option)
    /\ UNCHANGED << inst_vars, disp_vars, load_vars, seq_dir, scan_dir, scans_out, video, loop_vars >>

---------------------------------------------------------------------------
(* visualize_sequence                                                      *)

NoVideo == [dir |-> FALSE, files |-> <<>>]

\* render_video(mesh_dir, video_fn): the video of the mesh files found there
Render(v, option, d) ==
    [dir |-> TRUE, files |-> Put(v.files, option, DOMAIN d.files)]

\* variant: the meshes extracted again on every call
NeedsExtractAlways(d) == TRUE

\* variant: without the elif branch for an empty directory
NeedsExtractMissingOnly(d) == ~d.exists

\* "check if the meshes are already extracted; if not, extract first"
NeedsExtract(d) == ~d.exists \/ Cardinality(DOMAIN d.files) = 0

VisualizeSequence ==
    /\ pc = "idle"
    /\ \E option \in Options :
        LET d0   == mesh_dirs[option]
            need == NeedsExtract(d0)
        IN  \E flist \in (IF need THEN Perms(Glob(seq_dir, NPZ)) ELSE { <<>> }) :
              LET r  == extract_mesh_seq(option, flist)
                  d1 == IF need THEN [exists |-> r.exists, files |-> r.files] ELSE d0
                  lg == << Ev("makedirs", << "visualization" >>) >> \o
                        (IF need
                         THEN r.log \o (IF r.exc = "none" THEN << Ev("extract_end", <<>>) >> ELSE <<>>)
                         ELSE <<>>)
              IN  /\ mesh_dirs' = [mesh_dirs EXCEPT ![option] = d1]
                  /\ op' = Call("visualize_sequence", option)
                  /\ IF need /\ r.exc # "none"
                     THEN /\ exc' = r.exc
                          /\ log' = lg
                          /\ video' = [video EXCEPT !.dir = TRUE]
                     ELSE /\ exc' = "none"
                          /\ log' = lg \o << Ev("render_video", <<>>) >>
                          /\ video' = Render(video, option, d1)
    /\ UNCHANGED << inst_vars, disp_vars, load_vars, seq_dir, scan_dir, scans_out, loop_vars >>

---------------------------------------------------------------------------
(* vis_overlap                                                             *)

VisNum == 5

ScanFaces == << <<0, 1, 2>> >>

NoViewer == [open |-> FALSE, meshes |-> <<>>]

\* np.random.permutation(n)[:vis_num]: distinct indices 0..n-1, in any order
IdxChoices(n) ==
    LET m == IF n < VisNum THEN n ELSE VisNum
    IN  { f \in [1..m -> 0..(n - 1)] : \A i, j \in 1..m : i # j => f[i] # f[j] }

AlignsList == Sorted(Glob(seq_dir, NPZ))

ScansList == Sorted(Glob(scan_dir, PLY))

\* the two paths handed to write_obj in the loop body
ScanPath(i) == Pad2(i) \o Dot \o PNG

\* variant: the alignment written under a name of its own
AlignPathDistinct(i) == Pad2(i) \o << "a" >> \o Dot \o PNG

AlignPath(i) == Pad2(i) \o Dot \o PNG

\* one pass of the loop body for index i, up to the input() prompt: the state
\* of the output directory, the trace and the viewer after it
InspectFrame(i, out, lg) ==
    LET f     == FileAt(seq_dir, AlignsList[i + 1])
        mscan == MeshFile(Entry("scan", ScansList[i + 1]), ScanFaces)
    IN  IF "v_posed" \notin DOMAIN f.data
        THEN [exc |-> "KeyError", out |-> out, meshes |-> <<>>,
              log |-> lg \o << Ev("raise", AlignsList[i + 1]) >>]
        ELSE LET malign    == MeshFile(f.data["v_posed"], faces)
                 afterScan == Put(out.files, ScanPath(i), mscan)
             IN  [exc |-> "none",
                  out |-> Dir(Put(afterScan, AlignPath(i), malign)),
                  meshes |-> << mscan, malign >>,
                  log |-> lg \o << Ev("write_scan", ScanPath(i)),
                                   Ev("write_align", AlignPath(i)) >>]

\* the two existence checks: each prints its message and the call goes on
MissingReports ==
    (IF ~seq_dir.exists THEN << Ev("print", << "Missing mesh registrations" >>) >> ELSE <<>>) \o
    (IF ~scan_dir.exists THEN << Ev("print", << "Missing raw scan data" >>) >> ELSE <<>>)

\* the call, up to its first input() prompt or its end
VisOverlap ==
    /\ pc = "idle"
    /\ op' = Call("vis_overlap", "-")
    /\ LET lg0 == MissingReports \o << Ev("glob", <<>>) >>
       IN  IF Len(AlignsList) # Len(ScansList)
           THEN /\ exc' = "AssertionError"
                /\ log' = lg0
                /\ UNCHANGED << idx, pc, viewer, scans_out >>
           ELSE \E ix \in IdxChoices(Len(ScansList)) :
                   LET lg1 == lg0 \o << Ev("assert_ok", <<>>), Ev("viewer", <<>>) >>
                       r   == IF ix = <<>>
                              THEN [exc |-> "none", out |-> scans_out, meshes |-> <<>>, log |-> lg1]
                              ELSE InspectFrame(ix[1], scans_out, lg1)
                       waits == ix # <<>> /\ r.exc = "none"
                   IN  /\ exc' = r.exc
                       /\ log' = r.log
                       /\ scans_out' = r.out
                       /\ viewer' = [open |-> TRUE, meshes |-> r.meshes]
                       /\ pc' = (IF waits THEN "input" ELSE "idle")
                       /\ idx' = (IF waits THEN ix ELSE <<>>)
    /\ UNCHANGED << inst_vars, disp_vars, load_vars, seq_dir, scan_dir, mesh_dirs, video >>

\* Enter at the prompt: the next pass of the loop, or the end of the call
PressEnter ==
    /\ pc = "input"
    /\ LET rest == Tail(idx)
       IN  IF rest = <<>>
           THEN /\ pc' = "idle"
                /\ idx' = <<>>
                /\ UNCHANGED << exc, log, scans_out, viewer >>
           ELSE LET r == InspectFrame(rest[1], scans_out, log)
                IN  /\ exc' = r.exc
                    /\ log' = r.log
                    /\ scans_out' = r.out
                    /\ viewer' = [open |-> TRUE, meshes |-> r.meshes]
                    /\ pc' = (IF r.exc = "none" THEN "input" ELSE "idle")
                    /\ idx' = (IF r.exc = "none" THEN rest ELSE <<>>)
    /\ UNCHANGED << inst_vars, op, disp_vars, load_vars, seq_dir, scan_dir, mesh_dirs, video >>

---------------------------------------------------------------------------
(* calc_clo_disp, load_single_frame and demo as calls                      *)

\* variant: v_cano -= minimal_cano, which writes into the caller's array
CalcCloDispInPlace ==
    /\ pc = "idle"
    /\ LET r == calc_clo_disp(v_cano_in, minimal_in)
       IN  /\ exc' = r.exc
           /\ disp' = [done |-> r.exc = "none", val |-> r.val]
           /\ v_cano_in' = (IF r.exc = "none" /\ Len(r.val) = Len(v_cano_in)
                            THEN r.val ELSE v_cano_in)
    /\ op' = Call("calc_clo_disp", "-")
    /\ log' = <<>>
    /\ UNCHANGED << inst_vars, minimal_in, load_vars, fs_vars, loop_vars >>

\* calc_clo_disp(v_cano, minimal_cano) on the caller's two arrays
CalcCloDisp ==
    /\ pc = "idle"
    /\ LET r == calc_clo_disp(v_cano_in, minimal_in)
       IN  /\ exc' = r.exc
           /\ disp' = [done |-> r.exc = "none", val |-> r.val]
    /\ op' = Call("calc_clo_disp", "-")
    /\ log' = <<>>
    /\ UNCHANGED << inst_vars, v_cano_in, minimal_in, load_vars, fs_vars, loop_vars >>

\* load_single_frame(npz_fn), f being the file at npz_fn
LoadSingleFrame(f) ==
    /\ pc = "idle"
    /\ npz_in' = f
    /\ LET r == load_single_frame(f)
       IN  /\ exc' = r.exc
           /\ frame' = r.val
    /\ op' = Call("load_single_frame", "-")
    /\ log' = <<>>
    /\ UNCHANGED << inst_vars, disp_vars, fs_vars, loop_vars >>

LoadGiven == LoadSingleFrame(npz_in)

MissingName == << "x", ".", "n", "p", "z" >>

LoadFromSeq ==
    \E nm \in (IF seq_dir.exists THEN DOMAIN seq_dir.files ELSE {}) \cup { MissingName } :
        LoadSingleFrame(FileAt(seq_dir, nm))

\* demo(subj, seq_name): v_cano_in stands for the numbers of the chosen frame's
\* v_cano entry and minimal_in for those of <subj>_minimal.npy.  The two paths
\* are built from the module-level name dataset_dir, which is bound only when
\* the file runs as a script.
Demo ==
    /\ pc = "idle"
    /\ op' = Call("demo", "-")
    /\ \E has_global \in BOOLEAN :
          IF ~has_global
          THEN /\ exc' = "NameError"
               /\ log' = <<>>
               /\ UNCHANGED << disp, npz_in, frame, viewer >>
          ELSE IF ~seq_dir.exists \/ DOMAIN seq_dir.files = {}
          THEN /\ exc' = (IF seq_dir.exists THEN "IndexError" ELSE "FileNotFoundError")
               /\ log' = <<>>
               /\ UNCHANGED << disp, npz_in, frame, viewer >>
          ELSE \E data_choice \in DOMAIN seq_dir.files :
                  LET f == FileAt(seq_dir, data_choice)
                      r == load_single_frame(f)
                      c == calc_clo_disp(v_cano_in, minimal_in)
                  IN  /\ npz_in' = f
                      /\ frame' = r.val
                      /\ log' = << Ev("print", data_choice) >>
                      /\ IF r.exc # "none"
                         THEN /\ exc' = r.exc
                              /\ UNCHANGED << disp, viewer >>
                         ELSE IF c.exc # "none"
                         THEN /\ exc' = c.exc
                              /\ UNCHANGED << disp, viewer >>
                         ELSE /\ exc' = "none"
                              /\ disp' = [done |-> TRUE, val |-> c.val]
                              /\ viewer' = [open |-> TRUE,
                                            meshes |-> << MeshFile(Entry("minimal", <<>>), faces),
                                                          MeshFile(r.val[1], faces) >>]
    /\ UNCHANGED << inst_vars, v_cano_in, minimal_in, fs_vars, pc, idx >>

---------------------------------------------------------------------------
(* The dataset trees and inputs the runs start from                        *)

SmplTris == << <<0, 1, 2>>, <<0, 2, 3>> >>

NameA   == << "a", ".", "n", "p", "z" >>
NameNpz == << "n", "p", "z", ".", "n", "p", "z" >>
NameObj == << "o", "b", "j", ".", "n", "p", "z" >>
NameTxt == << "a", ".", "t", "x", "t" >>
NameOld == << "o", "l", "d", ".", "o", "b", "j" >>

ArchiveNames == { NameA, NameNpz, NameObj }

NoTransl == Keys \ { "transl" }

\* a sequence directory: missing, holding only a file that is no archive, or
\* holding any of the archives, the first complete or lacking its translation
SeqDirs ==
    { NoDir, Dir([n \in { NameTxt } |-> OtherFile]) } \cup
    { Dir([n \in ns |-> ArchiveOf(n, IF n \in bad THEN NoTransl ELSE Keys)]) :
        ns \in SUBSET ArchiveNames, bad \in SUBSET { NameA } }

ScanName(k) == << "s" >> \o Digits(k) \o Dot \o PLY

ScanDirs ==
    { NoDir } \cup
    { Dir([n \in { ScanName(k) : k \in 1..m } |-> OtherFile]) : m \in 0..MaxScans }

StaleDir == Dir([n \in { NameOld } |-> MeshFile(Entry("v_posed", NameOld), SmplTris)])

MeshDirInits == { NoDir, EmptyDir, StaleDir }

\* the archive at a path: absent, not an archive, or any subset of the four
\* entries (and possibly one more), each entry from one of two sources
SrcX == << "x" >>
SrcY == << "y" >>

FrameFiles ==
    { NoFile, OtherFile } \cup
    { Archive([k \in ks |-> Entry(k, src[k])]) :
        ks \in SUBSET Keys, src \in [Keys -> { SrcX, SrcY }] }

InitWith(libs, arrays, files, seqs, scans, meshes) ==
    /\ faces = SmplTris
    /\ dataset_dir = "cape"
    /\ mesh_lib \in libs
    /\ op = Call("__init__", "-")
    /\ exc = "none"
    /\ log = <<>>
    /\ v_cano_in \in arrays
    /\ minimal_in \in arrays
    /\ disp = NoDisp
    /\ npz_in \in files
    /\ frame = NoFrame
    /\ seq_dir \in seqs
    /\ scan_dir \in scans
    /\ mesh_dirs \in [Options -> meshes]
    /\ scans_out = NoDir
    /\ video = NoVideo
    /\ pc = "idle"
    /\ idx = <<>>
    /\ viewer = NoViewer

---------------------------------------------------------------------------
(* Specifications                                                          *)

\* the displacement calculator alone, over every pair of arrays
InitDisp == InitWith({ "trimesh" }, Arrays, { NoFile }, { NoDir }, { NoDir }, { NoDir })

NextDisp == CalcCloDisp

SpecDisp == InitDisp /\ [][NextDisp]_vars

\* the frame accessor alone, over every file
InitLoad == InitWith({ "trimesh" }, { <<>> }, FrameFiles, { NoDir }, { NoDir }, { NoDir })

NextLoad == LoadGiven

SpecLoad == InitLoad /\ [][NextLoad]_vars

\* extraction and visualisation over every sequence directory
InitSeq == InitWith({ "trimesh", "psbody.mesh" }, { <<>> }, { NoFile }, SeqDirs, { NoDir }, MeshDirInits)

NextSeq == ExtractMeshSeq \/ VisualizeSequence

SpecSeq == InitSeq /\ [][NextSeq]_vars

\* overlap inspection over every sequence and scan directory
InitOverlap == InitWith({ "psbody.mesh" }, { <<>> }, { NoFile }, SeqDirs, ScanDirs, { NoDir })

NextOverlap == VisOverlap \/ PressEnter

SpecOverlap == InitOverlap /\ [][NextOverlap]_vars

\* every operation of one accessor instance, on a dataset of up to two frames
DemoArrays == { << <<1, 0, 0>>, <<0, 1, 0>> >>, << <<Big, 0, 1>> >> }

SmallSeqDirs ==
    { NoDir,
      Dir([n \in { NameA } |-> ArchiveOf(n, Keys)]),
      Dir([n \in { NameA, NameNpz } |-> ArchiveOf(n, IF n = NameA THEN Keys ELSE NoTransl)]) }

SmallScanDirs == { NoDir, Dir([n \in { ScanName(1) } |-> OtherFile]) }

Init == InitWith(MeshLibs, DemoArrays, { NoFile }, SmallSeqDirs, SmallScanDirs, { NoDir })

Next ==
    \/ CalcCloDisp
    \/ LoadFromSeq
    \/ Demo
    \/ ExtractMeshSeq
    \/ VisualizeSequence
    \/ VisOverlap
    \/ PressEnter

Spec == Init /\ [][Next]_vars

---------------------------------------------------------------------------
(* Properties                                                              *)

HasEv(lg, e) == \E i \in DOMAIN lg : lg[i].ev = e

EvCount(lg, e) == Cardinality({ i \in DOMAIN lg : lg[i].ev = e })

EvArgs(lg, e) == { lg[i].arg : i \in { j \in DOMAIN lg : lg[j].ev = e } }

\* numpy's elementwise addition of two float arrays, for the round trip
FAdd(x, y) == Round(x + y)

ArrAdd(a, b) ==
    [i \in 1..BroadcastLen(Len(a), Len(b)) |->
        [j \in DOMAIN BRow(a, i) |-> FAdd(BRow(a, i)[j], BRow(b, i)[j])]]

\* whether the exact value x is one the floating point format holds
Representable(x) == Round(x) = x

SameCount == Len(v_cano_in) = Len(minimal_in)

CalcDone == op.name = "calc_clo_disp"

\* C1, as stated: for arrays of the same vertex count the result is the
\* N x 3 elementwise difference and adding minimal_cano back gives v_cano
\* at every element.
C1_RoundTripExact ==
    (CalcDone /\ SameCount) =>
        /\ disp.done
        /\ Len(disp.val) = Len(v_cano_in)
        /\ ArrAdd(disp.val, minimal_in) = v_cano_in

\* C1, amended: for arrays of the same vertex count the result is the N x 3
\* array of correctly rounded elementwise differences, and adding
\* minimal_cano back gives v_cano at every element whose difference is
\* exactly representable.
C1_RoundTripWhereExact ==
    (CalcDone /\ SameCount) =>
        /\ disp.done
        /\ exc = "none"
        /\ Len(disp.val) = Len(v_cano_in)
        /\ \A i \in DOMAIN v_cano_in : \A j \in DOMAIN v_cano_in[i] :
              /\ disp.val[i][j] = Round(v_cano_in[i][j] - minimal_in[i][j])
              /\ Representable(v_cano_in[i][j] - minimal_in[i][j])
                    => ArrAdd(disp.val, minimal_in)[i][j] = v_cano_in[i][j]

C1_Witness ==
    /\ CalcDone /\ SameCount /\ disp.done
    /\ Len(v_cano_in) = 2
    /\ v_cano_in # minimal_in
    /\ ArrAdd(disp.val, minimal_in) = v_cano_in

\* C2: a call with two arrays of different vertex counts always fails with
\* the shape error and produces no displacement array.
C2_MismatchRaises ==
    (CalcDone /\ ~SameCount) => (exc = "ValueError" /\ ~disp.done)

LoadDone == op.name = "load_single_frame"

\* the error kinds of the taxonomy, as the exceptions the calls raise
ErrorKind(e) ==
    CASE e = "FileNotFoundError" -> "NotFound"
      [] e = "KeyError"          -> "MalformedData"
      [] e = "none"              -> "none"
      [] OTHER                   -> "Generic"

\* C3: loading an archive that lacks any of the four entries fails with the
\* malformed-data kind, a missing path fails with the not-found kind, and an
\* archive holding all four returns them in the order v_cano, v_posed, pose,
\* transl.
C3_LoadContract ==
    LoadDone =>
        /\ ~npz_in.exists => (ErrorKind(exc) = "NotFound" /\ frame = NoFrame)
        /\ (npz_in.npz /\ ~(Keys \subseteq DOMAIN npz_in.data))
              => (ErrorKind(exc) = "MalformedData" /\ frame = NoFrame)
        /\ (npz_in.npz /\ Keys \subseteq DOMAIN npz_in.data)
              => /\ exc = "none"
                 /\ frame = << npz_in.data["v_cano"], npz_in.data["v_posed"],
                               npz_in.data["pose"], npz_in.data["transl"] >>

C3_Witness ==
    /\ LoadDone
    /\ npz_in.npz
    /\ DOMAIN npz_in.data = Keys \ { "transl" }
    /\ exc = "KeyError"
    /\ frame = NoFrame

\* C4: extraction for a sequence directory with no matching archive (or no
\* directory) does not raise and writes no mesh file; its only effect is that
\* the mesh directory of the option exists afterwards.
C4_EmptyExtraction ==
    [][ (op'.name = "extract_mesh_seq" /\ ~(\E n \in ArchiveNames : FileAt(seq_dir, n).exists))
          => /\ exc' = "none"
             /\ ~HasEv(log', "write")
             /\ mesh_dirs'[op'.option].exists
             /\ \A o \in Options :
                   /\ mesh_dirs'[o].files = mesh_dirs[o].files
                   /\ o # op'.option => mesh_dirs'[o] = mesh_dirs[o]
             /\ video' = video
             /\ seq_dir' = seq_dir ]_vars

C4_Witness ==
    /\ op.name = "extract_mesh_seq"
    /\ seq_dir.exists
    /\ DOMAIN seq_dir.files = { NameTxt }
    /\ exc = "none"
    /\ mesh_dirs[op.option] = EmptyDir
    /\ \E o \in Options : ~mesh_dirs[o].exists

OverlapCalled == op.name = "vis_overlap"

\* C5: when the registration directory or the scan directory is missing,
\* overlap inspection reports it and ends there: it lists no files, passes no
\* count check, opens no viewer and inspects no frame.
C5_MissingAborts ==
    (OverlapCalled /\ (~seq_dir.exists \/ ~scan_dir.exists)) =>
        /\ HasEv(log, "print")
        /\ ~HasEv(log, "glob")
        /\ ~HasEv(log, "assert_ok")
        /\ ~viewer.open
        /\ pc = "idle"

StartedEmpty(d) == ~d.exists \/ DOMAIN d.files = {}

\* C6, as stated: render_video is called only when the mesh directory did not
\* exist or held no files at the start of the call.
C6_RenderOnlyIfEmpty ==
    [][ (op'.name = "visualize_sequence" /\ HasEv(log', "render_video"))
          => StartedEmpty(mesh_dirs[op'.option]) ]_vars

\* C6, amended: the extraction is what runs only when the mesh directory did
\* not exist or held no files at the start of the call; render_video is called
\* once in every call in which no extraction fails, also when the directory
\* held files.
C6_ExtractOnlyIfEmpty ==
    [][ op'.name = "visualize_sequence"
          => /\ HasEv(log', "extract_begin") => StartedEmpty(mesh_dirs[op'.option])
             /\ EvCount(log', "render_video") = (IF exc' = "none" THEN 1 ELSE 0)
             /\ exc' # "none" => HasEv(log', "raise") ]_vars

C6_Witness ==
    /\ op.name = "visualize_sequence"
    /\ HasEv(log, "render_video")
    /\ ~HasEv(log, "extract_begin")
    /\ NameOld \in DOMAIN mesh_dirs[op.option].files

\* C7: no call changes the face table, the dataset root or the backend name
\* of the instance, and calc_clo_disp leaves both of its argument arrays as
\* they were.
C7_InstanceFrozen ==
    [][ /\ faces' = faces
        /\ dataset_dir' = dataset_dir
        /\ mesh_lib' = mesh_lib
        /\ v_cano_in' = v_cano_in
        /\ minimal_in' = minimal_in ]_vars

C7_Witness ==
    /\ faces = SmplTris
    /\ disp.done
    /\ disp.val # v_cano_in
    /\ frame # NoFrame
    /\ video.dir
    /\ scans_out.exists
    /\ \E o \in Options : mesh_dirs[o].exists /\ DOMAIN mesh_dirs[o].files # {}

EvPos(lg, e) == CHOOSE i \in DOMAIN lg : lg[i].ev = e

\* C8: in visualize_sequence the extraction runs exactly when the mesh
\* directory does not exist or has no entries, at most once, and is complete
\* before render_video is called; a directory that already holds an entry is
\* left as it is and rendered as it is.
C8_ExtractThenRender ==
    [][ op'.name = "visualize_sequence"
          => LET d    == mesh_dirs[op'.option]
                 need == StartedEmpty(d)
             IN  /\ EvCount(log', "extract_begin") = (IF need THEN 1 ELSE 0)
                 /\ (need /\ HasEv(log', "render_video"))
                       => /\ HasEv(log', "extract_end")
                          /\ EvPos(log', "extract_begin") < EvPos(log', "extract_end")
                          /\ EvPos(log', "extract_end") < EvPos(log', "render_video")
                 /\ (need /\ ~HasEv(log', "extract_end")) => ~HasEv(log', "render_video")
                 /\ ~need
                       => /\ mesh_dirs' = mesh_dirs
                          /\ ~HasEv(log', "write")
                          /\ HasEv(log', "render_video")
                          /\ video'.files[op'.option] = DOMAIN d.files ]_vars

C8_Witness ==
    /\ op.name = "visualize_sequence"
    /\ mesh_dirs[op.option] = StaleDir
    /\ \E n \in ArchiveNames : FileAt(seq_dir, n).exists
    /\ HasEv(log, "render_video")
    /\ video.files[op.option] = { NameOld }

PngName(i) == Pad2(i) \o << ".", "p", "n", "g" >>

\* C9: at every prompt of overlap inspection, the frame just inspected had
\* its scan and then its alignment written to the same path, the zero-padded
\* index with the .png suffix, so that path holds the alignment mesh and no
\* file of the output directory holds a scan.
C9_ScanOverwritten ==
    pc = "input" =>
        LET i == Head(idx)
            n == Len(log)
        IN  /\ log[n - 1] = Ev("write_scan", PngName(i))
            /\ log[n] = Ev("write_align", PngName(i))
            /\ scans_out.exists
            /\ PngName(i) \in DOMAIN scans_out.files
            /\ scans_out.files[PngName(i)] =
                  MeshFile(Entry("v_posed", AlignsList[i + 1]), faces)
            /\ \A f \in DOMAIN scans_out.files : scans_out.files[f].verts.key # "scan"

C9_Witness ==
    /\ pc = "input"
    /\ Len(idx) = 1
    /\ EvCount(log, "write_scan") = 2
    /\ Cardinality(DOMAIN scans_out.files) = 2

ExpectedObj(nm) == SubSeq(nm, 1, Len(nm) - 3) \o << "o", "b", "j" >>

ArchivesPresent == { n \in ArchiveNames : FileAt(seq_dir, n).exists }

\* C10: with either backend, an extraction in which every frame loads writes
\* for each archive <stem>.npz the file <stem>.obj, distinct archives giving
\* distinct files, so as many mesh files as archives, each holding v_posed
\* for the option 'posed' and v_cano otherwise.
C10_OneMeshPerArchive ==
    (/\ op.name = "extract_mesh_seq"
     /\ exc = "none"
     /\ mesh_lib \in { "trimesh", "psbody.mesh" })
    => /\ EvArgs(log, "write") = { ExpectedObj(n) : n \in ArchivesPresent }
       /\ Cardinality(EvArgs(log, "write")) = Cardinality(ArchivesPresent)
       /\ \A n \in ArchivesPresent :
             /\ ExpectedObj(n) \in DOMAIN mesh_dirs[op.option].files
             /\ mesh_dirs[op.option].files[ExpectedObj(n)] =
                   MeshFile(Entry(IF op.option = "posed" THEN "v_posed" ELSE "v_cano", n), faces)

=============================================================================
